---- MODULE Spec2Model ----
(***************************************************************************)
(* sutil::value_ptr <T, ClonerT, DeleterT> (src/value_ptr/value_ptr.hpp):  *)
(* an owning pointer that clones its pointee on copy.                      *)
(*                                                                         *)
(* The model has a small pool of value_ptr objects, a heap of allocations  *)
(* with a pointee value each, and a record of every invocation of a        *)
(* cloner or a deleter.  Every public operation is one action, composed    *)
(* from the member functions in the order the source calls them.           *)
(***************************************************************************)
EXTENDS Integers, Sequences, FiniteSets, TLC

\* ---- bounds ----
NumInst  == 2      \* value_ptr objects the program works with
MaxAlloc == 3      \* heap allocations made in one run
MaxPol   == 1      \* distinguishable states of a cloner / deleter: 0..MaxPol

\* ---- program constants ----
NULL          == 0     \* nullptr
DefaultPolicy == 0     \* cloner_type() / deleter_type()
THROW         == -1    \* the cloner left by an exception
FirstValue    == 5     \* the pointee value of a new object (the X = 5 of the scenario)

Inst     == 1..NumInst
Alloc    == 1..MaxAlloc
Policy   == 0..MaxPol
Values   == {5, 7}

VARIABLES
    m,        \* m[i] = <<pointer, cloner, deleter>>: the tuple m_ of object i
    life,     \* life[i]: "none" before construction, "live", "dead" after destruction
    nalloc,   \* allocations made so far; the next fresh one is nalloc + 1
    val,      \* val[a]: the pointee value in allocation a (0: none, or not tracked)
    deleted,  \* deleted[a]: how often a deleter was invoked on allocation a
    adopted,  \* allocations some object has taken ownership of
    released, \* allocations handed to the caller by release()
    cloned,   \* allocations handed to the caller by clone()
    copyOf,   \* copyOf[w] = v: object w was last made as a copy of object v
    last      \* the operation that ran last, with what it saw and did

vars == <<m, life, nalloc, val, deleted, adopted, released, cloned, copyOf, last>>

\* m_ after value-initialisation: std::tuple <T*, ClonerT, DeleterT>()
Blank == <<NULL, DefaultPolicy, DefaultPolicy>>

\* ---- accessors ----
get(t)         == t[1]
get_cloner(t)  == t[2]
get_deleter(t) == t[3]
operator_bool(t) == IF get(t) = NULL THEN FALSE ELSE TRUE

\* ---- invocations of the two policies ----
DelEv(d, p)      == [k |-> "del",   pol |-> d, arg |-> p, res |-> NULL]
CloneEv(c, p, r) == [k |-> "clone", pol |-> c, arg |-> p, res |-> r]

\* clone() that copies the pointer instead of the pointee
clone_shallow(t, out) ==
    [res |-> get(t), ev |-> <<>>]

\* clone() that runs the cloner on an empty object too
clone_unguarded(t, out) ==
    [res |-> out, ev |-> <<CloneEv(get_cloner(t), get(t), out)>>]

\* clone(): the cloner runs only on a non-empty object; out is what the
\* cloner does (a fresh allocation, or THROW).
clone(t, out) ==
    IF operator_bool(t)
    THEN [res |-> out,  ev |-> <<CloneEv(get_cloner(t), get(t), out)>>]
    ELSE [res |-> NULL, ev |-> <<>>]

\* reset(p) that forgets the deleter: the held pointer is overwritten
reset_leak(t, p) ==
    [m |-> <<p, get_cloner(t), get_deleter(t)>>, ev |-> <<>>]

\* reset(p) without the guard: the deleter runs even when p is the held pointer
reset_unguarded(t, p) ==
    [m |-> <<p, get_cloner(t), get_deleter(t)>>,
     ev |-> <<DelEv(get_deleter(t), get(t))>>]

\* reset(p) that spares the deleter the null pointer of an empty object
reset_nullcheck(t, p) ==
    [m |-> <<p, get_cloner(t), get_deleter(t)>>,
     ev |-> IF p # get(t) /\ get(t) # NULL
            THEN <<DelEv(get_deleter(t), get(t))>> ELSE <<>>]

\* reset(p): guarded by p != get(); the deleter runs on the held pointer
\* (null included), then the pointer is replaced.
reset(t, p) ==
    IF p # get(t)
    THEN [m |-> <<p, get_cloner(t), get_deleter(t)>>,
          ev |-> <<DelEv(get_deleter(t), get(t))>>]
    ELSE [m |-> t, ev |-> <<>>]

\* release() that forgets to null the pointer
release_keep(t) ==
    [m |-> t, ret |-> get(t)]

\* release(): hands the pointer out and nulls it; no policy runs.
release(t) ==
    [m |-> <<NULL, get_cloner(t), get_deleter(t)>>, ret |-> get(t)]

\* ---- the heap ----
\* What a cloner may do on an object: nothing to choose when the object is
\* empty; otherwise it throws or returns the next fresh allocation (none is
\* left once the heap bound is reached: allocation failure)
Outcomes(t) ==
    IF operator_bool(t)
    THEN {THROW} \cup (IF nalloc < MaxAlloc THEN {nalloc + 1} ELSE {})
    ELSE {NULL}

\* The value a cloner reads through pointer p: the pointee's, unless the
\* allocation was destroyed already (a read of freed storage: any value).
Pointee(t) ==
    IF ~operator_bool(t) THEN {0}
    ELSE IF deleted[get(t)] = 0 THEN {val[get(t)]} ELSE Values

\* The deleter invocations of a log, counted per allocation: a deleter
\* accepts null as a no-op
RECURSIVE Destroyed(_, _)
Destroyed(del, ev) ==
    IF ev = <<>> THEN del
    ELSE LET e == Head(ev)
             d == IF e.k = "del" /\ e.arg # NULL
                  THEN [del EXCEPT ![e.arg] = @ + 1]
                  ELSE del
         IN Destroyed(d, Tail(ev))

\* The pointee values after the deleter invocations of a log: a destroyed
\* allocation holds no value any more
RECURSIVE Freed(_, _)
Freed(vl, ev) ==
    IF ev = <<>> THEN vl
    ELSE LET e == Head(ev)
             u == IF e.k = "del" /\ e.arg # NULL
                  THEN [vl EXCEPT ![e.arg] = 0]
                  ELSE vl
         IN Freed(u, Tail(ev))

\* The heap after an operation that obtained pointer p with pointee value x
\* (a new allocation when p is beyond the ones made so far) and invoked the
\* policies as the log ev says
Heap(p, x, ev) ==
    /\ nalloc' = IF p > nalloc THEN p ELSE nalloc
    /\ val' = Freed(IF p > nalloc THEN [val EXCEPT ![p] = x] ELSE val, ev)
    /\ deleted' = Destroyed(deleted, ev)

\* The record of an operation: its name, the object it ran on (dst), its
\* argument object (src), whether it returned normally, what it returned, the
\* policy invocations it made in order, and the tuples of all objects before it
Op(name, dst, src, ok, ret, ev) ==
    [op |-> name, dst |-> dst, src |-> src, ok |-> ok, ret |-> ret, ev |-> ev,
     was |-> m]

\* Objects are constructed once, in index order
Unborn(i) == life[i] = "none" /\ (IF i = 1 THEN TRUE ELSE life[i - 1] # "none")

Init ==
    /\ m = [i \in Inst |-> Blank]
    /\ life = [i \in Inst |-> "none"]
    /\ nalloc = 0
    /\ val = [a \in Alloc |-> 0]
    /\ deleted = [a \in Alloc |-> 0]
    /\ adopted = {}
    /\ released = {}
    /\ cloned = {}
    /\ copyOf = [i \in Inst |-> 0]
    /\ last = Op("init", 0, 0, TRUE, NULL, <<>>)

\* value_ptr() / value_ptr(nullptr_t)
DefaultConstruct(i) ==
    /\ Unborn(i)
    /\ m' = [m EXCEPT ![i] = <<NULL, DefaultPolicy, DefaultPolicy>>]
    /\ life' = [life EXCEPT ![i] = "live"]
    /\ last' = Op("default_ctor", i, 0, TRUE, NULL, <<>>)
    /\ UNCHANGED <<nalloc, val, deleted, adopted, released, cloned, copyOf>>

\* value_ptr(T* ptr [, d] [, c]) on a freshly allocated pointee
Construct(i, c, d) ==
    /\ Unborn(i)
    /\ nalloc < MaxAlloc
    /\ LET p == nalloc + 1 IN
        /\ m' = [m EXCEPT ![i] = <<p, c, d>>]
        /\ Heap(p, FirstValue, <<>>)
        /\ adopted' = adopted \cup {p}
    /\ life' = [life EXCEPT ![i] = "live"]
    /\ last' = Op("ctor", i, 0, TRUE, NULL, <<>>)
    /\ UNCHANGED <<released, cloned, copyOf>>

\* ~value_ptr()
Destroy(i) ==
    /\ life[i] = "live"
    /\ LET r == reset(m[i], NULL) IN
        /\ Heap(NULL, 0, r.ev)
        /\ last' = Op("dtor", i, 0, TRUE, NULL, r.ev)
    /\ m' = [m EXCEPT ![i] = Blank]
    /\ life' = [life EXCEPT ![i] = "dead"]
    /\ copyOf' = [copyOf EXCEPT ![i] = 0]
    /\ UNCHANGED <<adopted, released, cloned>>

\* What a moved-from policy object is left as.  The policies are function
\* objects (default_clone <T>, std::default_delete <T>, or a user's functor
\* with a configuration): assigning from std::move of one copies it and
\* leaves the source as it was.
MovedFrom(pol) == {pol}

\* value_ptr(value_ptr const& v), value_ptr(value_ptr <U, ClonerU, DeleterU> const& v)
CopyConstruct(w, v) ==
    /\ Unborn(w)
    /\ life[v] = "live"
    /\ \E out \in Outcomes(m[v]), x \in Pointee(m[v]) :
        LET cl == clone(m[v], out) IN
        IF cl.res = THROW
        THEN /\ last' = Op("copy_ctor", w, v, FALSE, NULL, cl.ev)
             /\ UNCHANGED <<m, life, nalloc, val, deleted, adopted, copyOf>>
        ELSE LET r  == reset(Blank, cl.res)
                 t1 == [r.m EXCEPT ![3] = get_deleter(m[v])]
                 t2 == [t1 EXCEPT ![2] = get_cloner(m[v])]
             IN /\ m' = [m EXCEPT ![w] = t2]
                /\ life' = [life EXCEPT ![w] = "live"]
                /\ copyOf' = [copyOf EXCEPT ![w] = v]
                /\ Heap(cl.res, x, cl.ev \o r.ev)
                /\ adopted' = adopted \cup ({cl.res} \ {NULL})
                /\ last' = Op("copy_ctor", w, v, TRUE, NULL, cl.ev \o r.ev)
    /\ UNCHANGED <<released, cloned>>

\* Copy assignment that gives up the destination's pointee when the clone
\* fails: the basic guarantee instead of the strong one
CopyAssign_clearOnThrow(w, v) ==
    /\ life[w] = "live"
    /\ life[v] = "live"
    /\ \E out \in Outcomes(m[v]), x \in Pointee(m[v]) :
        LET cl == clone(m[v], out)
            r  == reset(m[w], IF cl.res = THROW THEN NULL ELSE cl.res)
            m1 == [m  EXCEPT ![w] = r.m]
            m2 == [m1 EXCEPT ![w][3] = get_deleter(m1[v])]
            m3 == [m2 EXCEPT ![w][2] = get_cloner(m2[v])]
        IN /\ m' = IF cl.res = THROW THEN m1 ELSE m3
           /\ Heap(IF cl.res = THROW THEN NULL ELSE cl.res, x, cl.ev \o r.ev)
           /\ adopted' = adopted \cup ({cl.res} \cap Alloc)
           /\ last' = Op("copy_assign", w, v, cl.res # THROW, NULL, cl.ev \o r.ev)
    /\ UNCHANGED <<life, released, cloned, copyOf>>

\* Copy assignment that destroys the destination's pointee first and clones
\* afterwards
CopyAssign_destroyFirst(w, v) ==
    /\ life[w] = "live"
    /\ life[v] = "live"
    /\ \E out \in Outcomes(m[v]), x \in Pointee(m[v]) :
        LET r0 == reset(m[w], NULL)
            m0 == [m EXCEPT ![w] = r0.m]
            cl == clone(m0[v], out)
            r  == reset(m0[w], IF cl.res = THROW THEN NULL ELSE cl.res)
            m1 == [m0 EXCEPT ![w] = r.m]
            m2 == [m1 EXCEPT ![w][3] = get_deleter(m1[v])]
            m3 == [m2 EXCEPT ![w][2] = get_cloner(m2[v])]
        IN /\ m' = IF cl.res = THROW THEN m0 ELSE m3
           /\ Heap(IF cl.res = THROW THEN NULL ELSE cl.res, x,
                   IF cl.res = THROW THEN r0.ev \o cl.ev ELSE r0.ev \o cl.ev \o r.ev)
           /\ adopted' = adopted \cup ({cl.res} \cap Alloc)
           /\ last' = Op("copy_assign", w, v, cl.res # THROW, NULL,
                         IF cl.res = THROW THEN r0.ev \o cl.ev ELSE r0.ev \o cl.ev \o r.ev)
    /\ UNCHANGED <<life, released, cloned, copyOf>>

\* Copy assignment that clones the pointee and forgets the policies
CopyAssign_keepPolicies(w, v) ==
    /\ life[w] = "live"
    /\ life[v] = "live"
    /\ \E out \in Outcomes(m[v]), x \in Pointee(m[v]) :
        LET cl == clone(m[v], out) IN
        IF cl.res = THROW
        THEN /\ last' = Op("copy_assign", w, v, FALSE, NULL, cl.ev)
             /\ UNCHANGED <<m, nalloc, val, deleted, adopted>>
        ELSE LET r == reset(m[w], cl.res)
             IN /\ m' = [m EXCEPT ![w] = r.m]
                /\ Heap(cl.res, x, cl.ev \o r.ev)
                /\ adopted' = adopted \cup ({cl.res} \ {NULL})
                /\ last' = Op("copy_assign", w, v, TRUE, NULL, cl.ev \o r.ev)
    /\ UNCHANGED <<life, released, cloned, copyOf>>

\* operator=(value_ptr const& v), operator=(value_ptr <U, ClonerU, DeleterU> const& v)
CopyAssign(w, v) ==
    /\ life[w] = "live"
    /\ life[v] = "live"
    /\ \E out \in Outcomes(m[v]), x \in Pointee(m[v]) :
        LET cl == clone(m[v], out) IN
        IF cl.res = THROW
        THEN /\ last' = Op("copy_assign", w, v, FALSE, NULL, cl.ev)
             /\ UNCHANGED <<m, nalloc, val, deleted, adopted, copyOf>>
        ELSE LET r  == reset(m[w], cl.res)
                 m1 == [m  EXCEPT ![w] = r.m]
                 m2 == [m1 EXCEPT ![w][3] = get_deleter(m1[v])]
                 m3 == [m2 EXCEPT ![w][2] = get_cloner(m2[v])]
             IN /\ m' = m3
                /\ copyOf' = [copyOf EXCEPT ![w] = IF w = v THEN @ ELSE v]
                /\ Heap(cl.res, x, cl.ev \o r.ev)
                /\ adopted' = adopted \cup ({cl.res} \ {NULL})
                /\ last' = Op("copy_assign", w, v, TRUE, NULL, cl.ev \o r.ev)
    /\ UNCHANGED <<life, released, cloned>>

\* Move assignment that takes a clone of v's pointee and then empties v
MoveAssign_byCopy(w, v) ==
    /\ life[w] = "live"
    /\ life[v] = "live"
    /\ \E out \in Outcomes(m[v]), x \in Pointee(m[v]) :
        LET cl == clone(m[v], out) IN
        IF cl.res = THROW
        THEN /\ last' = Op("move_assign", w, v, FALSE, NULL, cl.ev)
             /\ UNCHANGED <<m, nalloc, val, deleted, adopted>>
        ELSE LET r  == reset(m[w], cl.res)
                 m1 == [m  EXCEPT ![w] = r.m]
                 m2 == [m1 EXCEPT ![w][3] = get_deleter(m1[v])]
                 m3 == [m2 EXCEPT ![w][2] = get_cloner(m2[v])]
                 r2 == reset(m3[v], NULL)
             IN /\ m' = [m3 EXCEPT ![v] = r2.m]
                /\ Heap(cl.res, x, cl.ev \o r.ev \o r2.ev)
                /\ adopted' = adopted \cup ({cl.res} \ {NULL})
                /\ last' = Op("move_assign", w, v, TRUE, NULL, cl.ev \o r.ev \o r2.ev)
    /\ UNCHANGED <<life, released, cloned, copyOf>>

\* Move assignment that destroys the destination's pointee first and takes
\* v's pointer afterwards
MoveAssign_destroyFirst(w, v) ==
    /\ life[w] = "live"
    /\ life[v] = "live"
    /\ LET r0  == reset(m[w], NULL)
           m0  == [m  EXCEPT ![w] = r0.m]
           rel == release(m0[v])
           m1  == [m0 EXCEPT ![v] = rel.m]
           r   == reset(m1[w], rel.ret)
           m2  == [m1 EXCEPT ![w] = r.m]
           m3  == [m2 EXCEPT ![w][3] = get_deleter(m2[v])]
           m4  == [m3 EXCEPT ![w][2] = get_cloner(m3[v])]
       IN /\ m' = m4
          /\ Heap(NULL, 0, r0.ev \o r.ev)
          /\ last' = Op("move_assign", w, v, TRUE, NULL, r0.ev \o r.ev)
    /\ UNCHANGED <<life, adopted, released, cloned, copyOf>>

\* Move assignment that installs v's deleter before it resets the destination
MoveAssign_deleterFirst(w, v) ==
    /\ life[w] = "live"
    /\ life[v] = "live"
    /\ LET m0  == [m  EXCEPT ![w][3] = get_deleter(m[v])]
           rel == release(m0[v])
           m1  == [m0 EXCEPT ![v] = rel.m]
           r   == reset(m1[w], rel.ret)
           m2  == [m1 EXCEPT ![w] = r.m]
           m3  == [m2 EXCEPT ![w][2] = get_cloner(m2[v])]
       IN /\ m' = m3
          /\ Heap(NULL, 0, r.ev)
          /\ last' = Op("move_assign", w, v, TRUE, NULL, r.ev)
    /\ UNCHANGED <<life, adopted, released, cloned, copyOf>>

\* operator=(value_ptr&& v), operator=(value_ptr <U, ClonerU, DeleterU>&& v)
MoveAssign(w, v) ==
    /\ life[w] = "live"
    /\ life[v] = "live"
    /\ LET rel == release(m[v])
           m1  == [m  EXCEPT ![v] = rel.m]
           r   == reset(m1[w], rel.ret)
           m2  == [m1 EXCEPT ![w] = r.m]
       IN \E fd \in MovedFrom(get_deleter(m2[v])), fc \in MovedFrom(get_cloner(m2[v])) :
           LET m3 == [m2 EXCEPT ![w][3] = get_deleter(m2[v])]
               m4 == [m3 EXCEPT ![v][3] = fd]
               m5 == [m4 EXCEPT ![w][2] = get_cloner(m4[v])]
               m6 == [m5 EXCEPT ![v][2] = fc]
           IN /\ m' = m6
              /\ Heap(NULL, 0, r.ev)
              /\ last' = Op("move_assign", w, v, TRUE, NULL, r.ev)
    /\ UNCHANGED <<life, adopted, released, cloned, copyOf>>

\* reset(p) with p a freshly allocated pointee
ResetNew(i) ==
    /\ life[i] = "live"
    /\ nalloc < MaxAlloc
    /\ LET p == nalloc + 1
           r == reset(m[i], p)
       IN /\ m' = [m EXCEPT ![i] = r.m]
          /\ Heap(p, FirstValue, r.ev)
          /\ adopted' = adopted \cup {p}
          /\ last' = Op("reset", i, 0, TRUE, p, r.ev)
    /\ UNCHANGED <<life, released, cloned, copyOf>>

\* reset() and reset(get()): p is null or the pointer already held
ResetTo(i, p) ==
    /\ life[i] = "live"
    /\ p \in {NULL, get(m[i])}
    /\ LET r == reset(m[i], p)
       IN /\ m' = [m EXCEPT ![i] = r.m]
          /\ Heap(NULL, 0, r.ev)
          /\ last' = Op("reset", i, 0, TRUE, p, r.ev)
    /\ UNCHANGED <<life, adopted, released, cloned, copyOf>>

\* release(): the caller receives the pointer, and the pointee with it: its
\* value is the caller's business from here on
Release(i) ==
    /\ life[i] = "live"
    /\ LET rel == release(m[i])
       IN /\ m' = [m EXCEPT ![i] = rel.m]
          /\ released' = released \cup ({rel.ret} \ {NULL})
          /\ val' = [a \in Alloc |-> IF a = rel.ret THEN 0 ELSE val[a]]
          /\ last' = Op("release", i, 0, TRUE, rel.ret, <<>>)
    /\ UNCHANGED <<life, nalloc, deleted, adopted, cloned, copyOf>>

\* swap that exchanges the pointers and leaves the policies where they are
swap_targets(a, b) ==
    /\ life[a] = "live"
    /\ life[b] = "live"
    /\ m' = [m EXCEPT ![a][1] = get(m[b]), ![b][1] = get(m[a])]
    /\ last' = Op("swap", a, b, TRUE, NULL, <<>>)
    /\ UNCHANGED <<life, nalloc, val, deleted, adopted, released, cloned, copyOf>>

\* swap(value_ptr&& v): std::swap of the two tuples
swap(a, b) ==
    /\ life[a] = "live"
    /\ life[b] = "live"
    /\ m' = [m EXCEPT ![a] = m[b], ![b] = m[a]]
    /\ last' = Op("swap", a, b, TRUE, NULL, <<>>)
    /\ UNCHANGED <<life, nalloc, val, deleted, adopted, released, cloned, copyOf>>

\* clone() called by the program: the caller receives the clone
Clone(i) ==
    /\ life[i] = "live"
    /\ \E out \in Outcomes(m[i]), x \in Pointee(m[i]) :
        LET cl == clone(m[i], out) IN
        /\ Heap(cl.res, x, cl.ev)
        /\ cloned' = cloned \cup ({cl.res} \cap Alloc)
        /\ last' = Op("clone", i, 0, cl.res # THROW, cl.res, cl.ev)
    /\ UNCHANGED <<m, life, adopted, released, copyOf>>

\* *v = x, v->...: a write through operator* / operator-> of a non-empty object
Mutate(i, x) ==
    /\ life[i] = "live"
    /\ operator_bool(m[i])
    /\ deleted[get(m[i])] = 0
    /\ val[get(m[i])] # x
    /\ val' = [val EXCEPT ![get(m[i])] = x]
    /\ last' = Op("mutate", i, 0, TRUE, NULL, <<>>)
    /\ UNCHANGED <<m, life, nalloc, deleted, adopted, released, cloned, copyOf>>

\* value_ptr(value_ptr&& v).  Line 163 assigns the value_ptr v to the tuple
\* m_, which no std::tuple assignment accepts: the constructor is ill-formed
\* once instantiated.  It is modelled as the assignment it stands for,
\* m_ = std::move(v.m_): the tuple is moved member by member, and moving a raw
\* pointer copies it.
MoveConstruct(w, v) ==
    /\ Unborn(w)
    /\ life[v] = "live"
    /\ LET r == reset(Blank, NULL)
       IN \E fc \in MovedFrom(get_cloner(m[v])), fd \in MovedFrom(get_deleter(m[v])) :
           /\ m' = [m EXCEPT ![w] = <<get(m[v]), get_cloner(m[v]), get_deleter(m[v])>>,
                             ![v] = <<get(m[v]), fc, fd>>]
           /\ Heap(NULL, 0, r.ev)
           /\ last' = Op("move_ctor", w, v, TRUE, NULL, r.ev)
    /\ life' = [life EXCEPT ![w] = "live"]
    /\ UNCHANGED <<adopted, released, cloned, copyOf>>

\* The operations that create, copy, move, hand over and destroy objects
Ownership ==
    \/ \E i \in Inst : DefaultConstruct(i)
    \/ \E i \in Inst, c \in Policy, d \in Policy : Construct(i, c, d)
    \/ \E w \in Inst, v \in Inst : CopyConstruct(w, v)
    \/ \E w \in Inst, v \in Inst : CopyAssign(w, v)
    \/ \E w \in Inst, v \in Inst : MoveAssign(w, v)
    \/ \E i \in Inst : Release(i)
    \/ \E a \in Inst, b \in Inst : swap(a, b)
    \/ \E i \in Inst : Destroy(i)

Next ==
    \/ Ownership
    \/ \E i \in Inst : ResetNew(i)
    \/ \E i \in Inst, p \in 0..MaxAlloc : ResetTo(i, p)
    \/ \E i \in Inst : Clone(i)
    \/ \E i \in Inst, x \in Values : Mutate(i, x)

\* Every operation a program can be built with: the move constructor is
\* ill-formed once instantiated, so no program that builds runs it
Spec == Init /\ [][Next]_vars

NextMove ==
    \/ Ownership
    \/ \E w \in Inst, v \in Inst : MoveConstruct(w, v)

\* The ownership operations together with the move constructor, read as the
\* member-wise move its line 163 stands for
SpecMove == Init /\ [][NextMove]_vars

\* ---------------------------------------------------------------------
\* Ownership
\* ---------------------------------------------------------------------
Live == {i \in Inst : life[i] = "live"}
DelEvents   == {k \in DOMAIN last.ev : last.ev[k].k = "del"}
CloneEvents == {k \in DOMAIN last.ev : last.ev[k].k = "clone"}

\* C1: no allocation is the non-null target of two live objects at once.
C1_SoleOwner ==
    \A i \in Live, j \in Live :
        (i # j /\ get(m[i]) # NULL) => get(m[i]) # get(m[j])

\* C2: no deleter is invoked twice on the same allocation.
C2_NoDoubleFree ==
    \A a \in Alloc : deleted[a] <= 1

\* C3: once every object is destroyed, each allocation that an object adopted
\* and that release() did not hand back has had a deleter invoked on it.
C3_NoLeak ==
    (Live = {}) => \A a \in adopted \ released : deleted[a] >= 1

\* C3 witness: both objects are destroyed, they had adopted at least two
\* allocations that stayed with them, and another went back through release().
C3_Witness ==
    /\ Live = {}
    /\ \A i \in Inst : life[i] = "dead"
    /\ released # {}
    /\ Cardinality(adopted \ released) >= 2
    /\ C3_NoLeak

\* C4: move construction w(move(v)) leaves w with v's former pointer and v
\* empty, and invokes no cloner and no deleter.
C4_MoveConstruct ==
    last.op = "move_ctor" =>
        /\ get(m[last.dst]) = get(last.was[last.src])
        /\ get(m[last.src]) = NULL
        /\ last.ev = <<>>

\* C5: move assignment w = move(v) between distinct objects invokes the
\* deleter on w's former pointee (when w had one), leaves w with v's former
\* pointer, cloner and deleter and v empty, and invokes no cloner.
C5_MoveAssign ==
    (last.op = "move_assign" /\ last.dst # last.src) =>
        LET ow == last.was[last.dst]
            ov == last.was[last.src]
        IN /\ get(ow) # NULL =>
                /\ \E k \in DelEvents : last.ev[k].arg = get(ow)
                /\ deleted[get(ow)] = 1
           /\ \A k \in DelEvents : last.ev[k].arg = get(ow)
           /\ m[last.dst] = <<get(ov), get_cloner(ov), get_deleter(ov)>>
           /\ get(m[last.src]) = NULL
           /\ CloneEvents = {}

\* C5 witness: both objects held a pointee and their policies differed.
C5_Witness ==
    /\ last.op = "move_assign"
    /\ last.dst # last.src
    /\ get(last.was[last.dst]) # NULL
    /\ get(last.was[last.src]) # NULL
    /\ get_cloner(last.was[last.dst]) # get_cloner(last.was[last.src])
    /\ get_deleter(last.was[last.dst]) # get_deleter(last.was[last.src])
    /\ deleted[get(last.was[last.dst])] = 1
    /\ get(m[last.dst]) = get(last.was[last.src])

\* ---------------------------------------------------------------------
\* Copying
\* ---------------------------------------------------------------------
IsCopy == last.op \in {"copy_ctor", "copy_assign"}
ClonerThrew == \E k \in CloneEvents : last.ev[k].res = THROW

\* C6: when the cloner fails in a copy construction or a copy assignment, the
\* operation fails, every object is as it was before (no object is added by
\* a failed construction), and no deleter has been invoked.
C6_CloneFailure ==
    (IsCopy /\ ClonerThrew) =>
        /\ ~last.ok
        /\ m = last.was
        /\ DelEvents = {}
        /\ last.op = "copy_ctor" => life[last.dst] = "none"

\* C6 witness: a copy assignment between two distinct non-empty objects
\* failed, and the destination still holds its undeleted pointee.
C6_Witness ==
    /\ last.op = "copy_assign"
    /\ ClonerThrew
    /\ last.dst # last.src
    /\ get(m[last.dst]) # NULL
    /\ deleted[get(m[last.dst])] = 0

\* C7: in a copy assignment w = v every deleter invocation comes after
\* v.clone() has returned normally: the operation succeeds, no cloner
\* invocation follows or fails, and for a non-empty v a successful cloner
\* invocation precedes (an empty v is cloned to null without the cloner).
C7_DestroyAfterClone ==
    last.op = "copy_assign" =>
        \A k \in DelEvents :
            /\ last.ok
            /\ \A j \in CloneEvents : j < k /\ last.ev[j].res # THROW
            /\ get(last.was[last.src]) # NULL => \E j \in CloneEvents : j < k

\* C7 witness: a copy assignment cloned v's pointee and then deleted w's.
C7_Witness ==
    /\ last.op = "copy_assign"
    /\ last.dst # last.src
    /\ \E k \in DelEvents : last.ev[k].arg # NULL
    /\ CloneEvents # {}

\* What a successful copy from v leaves in the destination: the allocation
\* v's cloner returned for v's pointer, new and held by nobody else (null,
\* and no cloner invocation, for an empty v), with v's cloner and deleter.
CopyResult ==
    LET ov == last.was[last.src]
        nw == m[last.dst]
    IN /\ IF get(ov) = NULL
          THEN get(nw) = NULL /\ CloneEvents = {}
          ELSE /\ \E k \in CloneEvents :
                    last.ev[k] = CloneEv(get_cloner(ov), get(ov), get(nw))
               /\ Cardinality(CloneEvents) = 1
               /\ get(nw) \in Alloc
               /\ get(nw) # get(ov)
               /\ get(nw) = nalloc
               /\ deleted[get(nw)] = 0
               /\ \A j \in Live \ {last.dst} : get(m[j]) # get(nw)
       /\ get_cloner(nw) = get_cloner(ov)
       /\ get_deleter(nw) = get_deleter(ov)

\* C8 as stated: a successful copy construction or copy assignment from v
\* yields the clone with v's policies and leaves v's pointer, cloner and
\* deleter unchanged.
C8_Copy ==
    (IsCopy /\ last.ok) =>
        /\ CopyResult
        /\ m[last.src] = last.was[last.src]

\* C8 amended: as C8, with v unchanged whenever v is not itself the
\* destination; in the self-assignment a = a the object ends up holding the
\* new clone.
C8_CopyOther ==
    (IsCopy /\ last.ok) =>
        /\ CopyResult
        /\ last.dst # last.src => m[last.src] = last.was[last.src]

\* C8 witness: a copy assignment between two non-empty objects with different
\* cloners and deleters succeeded.
C8_Witness ==
    /\ last.op = "copy_assign"
    /\ last.ok
    /\ last.dst # last.src
    /\ get(last.was[last.dst]) # NULL
    /\ get(last.was[last.src]) # NULL
    /\ get_cloner(last.was[last.dst]) # get_cloner(last.was[last.src])
    /\ get_deleter(last.was[last.dst]) # get_deleter(last.was[last.src])
    /\ get(m[last.dst]) # get(m[last.src])
    /\ get_cloner(m[last.dst]) = get_cloner(m[last.src])

\* Objects i and j are a copy and its original
CopyPair(i, j) == copyOf[i] = j \/ copyOf[j] = i

\* C9: a write to the pointee of an object, a reset of it or its destruction
\* changes neither the pointer nor the pointee value of an object it was
\* copied from or to, and invokes no deleter on that object's allocation.
C9_Independent ==
    [][last'.op \in {"mutate", "reset", "dtor"} =>
        \A j \in Live \ {last'.dst} :
            CopyPair(j, last'.dst) =>
                /\ m'[j] = m[j]
                /\ get(m[j]) # NULL =>
                    /\ val'[get(m[j])] = val[get(m[j])]
                    /\ deleted'[get(m[j])] = deleted[get(m[j])]]_vars

\* C9 witness: the scenario of the specification: the pointee of one of a
\* copy and its original was set to 7 and the other's is still 5.
C9_Witness ==
    /\ last.op = "mutate"
    /\ \E j \in Live \ {last.dst} :
        /\ CopyPair(j, last.dst)
        /\ get(m[j]) # NULL
        /\ val[get(m[last.dst])] = 7
        /\ val[get(m[j])] = FirstValue
        /\ deleted[get(m[j])] = 0

\* C10: a successful clone() of a non-empty object returns an allocation
\* other than the object's own, of equal pointee value, and leaves every
\* object as it was; no object holds an allocation clone() returned and no
\* deleter is ever invoked on one.
C10_Clone ==
    /\ (last.op = "clone" /\ last.ok /\ get(last.was[last.dst]) # NULL) =>
        /\ last.ret \in Alloc
        /\ last.ret # get(m[last.dst])
        /\ val[last.ret] = val[get(m[last.dst])]
        /\ m = last.was
        /\ last.ret \in cloned
    /\ \A a \in cloned :
        /\ deleted[a] = 0
        /\ a \notin adopted
        /\ \A i \in Live : get(m[i]) # a

\* C10 witness: clone() returned a copy of a pointee that had been set to 7.
C10_Witness ==
    /\ last.op = "clone"
    /\ last.ok
    /\ last.ret \in Alloc
    /\ val[last.ret] = 7
    /\ get(m[last.dst]) \in Alloc
    /\ last.ret # get(m[last.dst])

\* ---------------------------------------------------------------------
\* reset, release, swap
\* ---------------------------------------------------------------------
\* The objects other than the one the last operation ran on are as they were
OthersKept == \A j \in Inst \ {last.dst} : m[j] = last.was[j]

\* C11: reset(p) with p equal to the held pointer (reset(get()) on a non-empty
\* object, reset() on an empty one) invokes no deleter and no cloner and
\* leaves the pointer, the cloner and the deleter of every object as they were.
C11_ResetSame ==
    (last.op = "reset" /\ last.ret = get(last.was[last.dst])) =>
        /\ last.ev = <<>>
        /\ m = last.was

\* C11 witness: reset(get()) ran on a non-empty object, whose pointee is
\* still there and undeleted.
C11_Witness ==
    /\ last.op = "reset"
    /\ last.ret # NULL
    /\ last.ret = get(last.was[last.dst])
    /\ get(m[last.dst]) = last.ret
    /\ deleted[last.ret] = 0
    /\ val[last.ret] # 0

\* C12: reset(p) with p other than the held pointer invokes the object's
\* deleter exactly once, on the pointer held before (the only deleter
\* invocation that allocation ever gets), invokes no cloner, and leaves the
\* object with pointer p and the cloner and deleter it had; the other
\* objects are as they were.
C12_ResetOther ==
    (last.op = "reset" /\ last.ret # get(last.was[last.dst])) =>
        LET ow == last.was[last.dst]
        IN /\ last.ev = <<DelEv(get_deleter(ow), get(ow))>>
           /\ get(ow) # NULL => deleted[get(ow)] = 1
           /\ m[last.dst] = <<last.ret, get_cloner(ow), get_deleter(ow)>>
           /\ get(m[last.dst]) = last.ret
           /\ OthersKept

\* C12 witness: reset(p) replaced a pointee by a new one on an object with a
\* non-default cloner and deleter.
C12_Witness ==
    /\ last.op = "reset"
    /\ last.ret # NULL
    /\ get(last.was[last.dst]) # NULL
    /\ last.ret # get(last.was[last.dst])
    /\ get_deleter(last.was[last.dst]) # DefaultPolicy
    /\ get_cloner(last.was[last.dst]) # DefaultPolicy
    /\ deleted[get(last.was[last.dst])] = 1
    /\ get(m[last.dst]) = last.ret
    /\ deleted[last.ret] = 0

\* C13: release() returns the held pointer, leaves the object empty with its
\* cloner and deleter, and invokes neither policy; no operation invokes a
\* deleter on an allocation release() handed out, and no object holds one:
\* the destructor of the releasing object included.
C13_Release ==
    /\ last.op = "release" =>
            LET ow == last.was[last.dst]
            IN /\ last.ret = get(ow)
               /\ m[last.dst] = <<NULL, get_cloner(ow), get_deleter(ow)>>
               /\ last.ev = <<>>
               /\ OthersKept
               /\ last.ret # NULL => last.ret \in released
    /\ \A a \in released :
            /\ deleted[a] = 0
            /\ \A i \in Live : get(m[i]) # a

\* C13 witness: every object has been destroyed, one of them after it had
\* released its pointee, and the destructors deleted another allocation but
\* not the released one.
C13_Witness ==
    /\ \A i \in Inst : life[i] = "dead"
    /\ last.op = "dtor"
    /\ released # {}
    /\ \A a \in released : deleted[a] = 0
    /\ \E a \in Alloc \ released : deleted[a] = 1

\* C14: a.swap(b) gives a the pointer, cloner and deleter b had and b those a
\* had, leaves the other objects alone and invokes no cloner and no deleter;
\* a swap of the same pair right after a swap restores every object to what
\* it was before the first.
C14_Swap ==
    [][last'.op = "swap" =>
        /\ m'[last'.dst] = m[last'.src]
        /\ m'[last'.src] = m[last'.dst]
        /\ \A j \in Inst \ {last'.dst, last'.src} : m'[j] = m[j]
        /\ last'.ev = <<>>
        /\ <<nalloc', val', deleted'>> = <<nalloc, val, deleted>>
        /\ (last.op = "swap" /\ {last.dst, last.src} = {last'.dst, last'.src}) =>
                m' = last.was]_vars

\* C14 witness: a swap of two non-empty objects whose pointers, cloners and
\* deleters all differed: each now has what the other had.
C14_Witness ==
    /\ last.op = "swap"
    /\ last.dst # last.src
    /\ get(m[last.dst]) # NULL
    /\ get(m[last.src]) # NULL
    /\ get_cloner(m[last.dst]) # get_cloner(m[last.src])
    /\ get_deleter(m[last.dst]) # get_deleter(m[last.src])
    /\ m[last.dst] = last.was[last.src]
    /\ m[last.src] = last.was[last.dst]

\* ---------------------------------------------------------------------
\* Empty objects, failure, order of destruction
\* ---------------------------------------------------------------------
\* C15: an object is empty after default construction, after release() and
\* after being the source of a move assignment to another object; for an
\* empty object operator bool is false and get() is null, clone() returns
\* null and invokes no cloner, and the destructor invokes no deleter.
C15_Empty ==
    /\ \A i \in Live : get(m[i]) = NULL <=> ~operator_bool(m[i])
    /\ last.op \in {"default_ctor", "release"} => ~operator_bool(m[last.dst])
    /\ (last.op = "move_assign" /\ last.dst # last.src) => ~operator_bool(m[last.src])
    /\ (last.op = "clone" /\ ~operator_bool(last.was[last.dst])) =>
            /\ last.ok
            /\ last.ret = NULL
            /\ last.ev = <<>>
            /\ m = last.was
    /\ (last.op = "dtor" /\ ~operator_bool(last.was[last.dst])) => last.ev = <<>>

\* C15 witness: clone() ran on an object that was emptied after it had been
\* constructed with a pointee and a cloner of its own, and returned null.
C15_Witness ==
    /\ last.op = "clone"
    /\ ~operator_bool(last.was[last.dst])
    /\ get_cloner(last.was[last.dst]) # DefaultPolicy
    /\ last.ret = NULL
    /\ last.ev = <<>>

\* C16: an operation that fails is a copy construction, a copy assignment or
\* a clone() whose cloner failed; move construction, move assignment, reset,
\* release, swap and destruction return normally and invoke no cloner.
C16_OnlyClonerFails ==
    /\ ~last.ok =>
            /\ last.op \in {"copy_ctor", "copy_assign", "clone"}
            /\ ClonerThrew
    /\ last.op \in {"move_ctor", "move_assign", "reset", "release", "swap", "dtor"} =>
            /\ last.ok
            /\ CloneEvents = {}

\* C16 witness: a move assignment took the pointee of a non-empty source to
\* a non-empty destination and returned normally, with a deleter invoked and
\* no cloner.
C16_Witness ==
    /\ last.op = "move_assign"
    /\ last.ok
    /\ last.dst # last.src
    /\ get(last.was[last.src]) # NULL
    /\ get(last.was[last.dst]) # NULL
    /\ get(m[last.dst]) = get(last.was[last.src])
    /\ DelEvents # {}
    /\ CloneEvents = {}

\* C17: in a copy assignment and in a move assignment every deleter
\* invocation is made with the deleter the destination held before the
\* assignment, and on the destination's former pointee when it had one
\* (a self move assignment excepted, which keeps its pointee); after the
\* assignment the destination holds the new pointer and the source's deleter.
C17_OldDeleter ==
    (last.op \in {"copy_assign", "move_assign"} /\ last.ok) =>
        LET ow == last.was[last.dst]
            ov == last.was[last.src]
        IN /\ \A k \in DelEvents :
                /\ last.ev[k].pol = get_deleter(ow)
                /\ last.ev[k].arg \in {NULL, get(ow)}
           /\ (get(ow) # NULL /\ ~(last.op = "move_assign" /\ last.dst = last.src)) =>
                \E k \in DelEvents : last.ev[k] = DelEv(get_deleter(ow), get(ow))
           /\ get_deleter(m[last.dst]) = get_deleter(ov)
           /\ get(ow) # NULL => get(m[last.dst]) # get(ow) \/ last.dst = last.src

\* C17 witness: an assignment to a non-empty destination from a source with
\* another deleter: the deleter invoked is the destination's former one, the
\* deleter held now is the source's.
C17_Witness ==
    /\ last.op \in {"copy_assign", "move_assign"}
    /\ last.ok
    /\ last.dst # last.src
    /\ get(last.was[last.dst]) # NULL
    /\ get(last.was[last.src]) # NULL
    /\ get_deleter(last.was[last.dst]) # get_deleter(last.was[last.src])
    /\ \E k \in DelEvents :
         last.ev[k] = DelEv(get_deleter(last.was[last.dst]), get(last.was[last.dst]))
    /\ get_deleter(m[last.dst]) = get_deleter(last.was[last.src])

\* ---------------------------------------------------------------------
\* Self assignment, the deleter and null
\* ---------------------------------------------------------------------
\* C18: a copy assignment a = a on a non-empty object, when its cloner
\* succeeds, leaves a holding a new allocation with the pointee value a had,
\* invokes the deleter exactly once, on the former allocation, and never on
\* the new one; when the cloner fails, a, its pointee and the heap are as
\* they were.
C18_SelfCopy ==
    [][(/\ last'.op = "copy_assign"
        /\ last'.dst = last'.src
        /\ get(m[last'.dst]) # NULL) =>
        LET a    == last'.dst
            old  == get(m[a])
            nw   == get(m'[a])
            dels == {k \in DOMAIN last'.ev : last'.ev[k].k = "del"}
        IN IF last'.ok
           THEN /\ operator_bool(m'[a])
                /\ nw \in Alloc
                /\ nw # old
                /\ nw > nalloc
                /\ val'[nw] = val[old]
                /\ val[old] \in Values
                /\ Cardinality(dels) = 1
                /\ \A k \in dels : last'.ev[k].arg = old
                /\ deleted[old] = 0
                /\ deleted'[old] = 1
                /\ deleted'[nw] = 0
                /\ \A j \in Inst \ {a} : m'[j] = m[j]
           ELSE /\ m' = m
                /\ val' = val
                /\ deleted' = deleted
                /\ dels = {}]_vars

\* C18 witness: a = a succeeded on an object whose pointee had been set to 7:
\* a holds another allocation, of value 7, and the former one was deleted.
C18_Witness ==
    /\ last.op = "copy_assign"
    /\ last.dst = last.src
    /\ last.ok
    /\ get(last.was[last.dst]) # NULL
    /\ get(m[last.dst]) \in Alloc
    /\ get(m[last.dst]) # get(last.was[last.dst])
    /\ val[get(m[last.dst])] = 7
    /\ deleted[get(last.was[last.dst])] = 1
    /\ deleted[get(m[last.dst])] = 0

\* C19: a move assignment a = move(a) on a non-empty object returns normally
\* and leaves a holding the allocation it held, with its pointee; no deleter
\* is invoked on that allocation.
C19_SelfMove ==
    (/\ last.op = "move_assign"
     /\ last.dst = last.src
     /\ get(last.was[last.dst]) # NULL) =>
        LET old == get(last.was[last.dst])
        IN /\ last.ok
           /\ get(m[last.dst]) = old
           /\ \A k \in DelEvents : last.ev[k].arg # old
           /\ deleted[old] = 0
           /\ val[old] \in Values
           /\ OthersKept

\* C19 witness: a = move(a) ran on a non-empty object: it invoked its deleter
\* (on null) and the object still holds its undeleted pointee.
C19_Witness ==
    /\ last.op = "move_assign"
    /\ last.dst = last.src
    /\ get(last.was[last.dst]) # NULL
    /\ get(m[last.dst]) = get(last.was[last.dst])
    /\ DelEvents # {}
    /\ deleted[get(m[last.dst])] = 0

\* The deleter invocations of the last operation that were handed null
NullDeletes == {k \in DelEvents : last.ev[k].arg = NULL}

\* The tuple of the destination at the moment the last operation calls
\* reset(p) on it: what it was before the operation, except in a self move
\* assignment, where v.release() has emptied it by then
AtReset ==
    IF last.op = "move_assign" /\ last.dst = last.src
    THEN release(last.was[last.src]).m
    ELSE last.was[last.dst]

\* The operations that call reset(p), once they got as far as the call
CallsReset ==
    /\ last.op \in {"reset", "copy_ctor", "copy_assign", "move_assign", "dtor"}
    /\ last.ok

\* C20: an operation invokes a deleter on null exactly when it calls
\* reset(p) with a non-null p on an object that is empty at that moment: in
\* reset(p) itself, in a copy construction, and in a copy or move assignment
\* to an empty object, each with a non-null pointer coming in; it does so
\* once.  The destructor and reset() of an empty object invoke no deleter.
C20_NullDelete ==
    /\ NullDeletes # {} <=>
            /\ CallsReset
            /\ get(m[last.dst]) # NULL
            /\ get(AtReset) = NULL
    /\ Cardinality(NullDeletes) <= 1
    /\ (last.op \in {"copy_ctor", "copy_assign"} /\ last.ok) =>
            (get(m[last.dst]) # NULL <=> get(last.was[last.src]) # NULL)
    /\ last.op = "move_assign" =>
            (get(m[last.dst]) # NULL <=> get(last.was[last.src]) # NULL)
    /\ last.op = "reset" => get(m[last.dst]) = last.ret
    /\ (/\ last.op = "dtor" \/ (last.op = "reset" /\ last.ret = NULL)
        /\ get(last.was[last.dst]) = NULL) => last.ev = <<>>

\* C20 witness: a copy construction from a non-empty source with a deleter
\* of its own: the new object's default deleter was invoked on null before
\* the clone was adopted.
C20_Witness ==
    /\ last.op = "copy_ctor"
    /\ last.ok
    /\ get(last.was[last.src]) # NULL
    /\ get_deleter(last.was[last.src]) # DefaultPolicy
    /\ \E k \in NullDeletes : last.ev[k] = DelEv(DefaultPolicy, NULL)
    /\ get(m[last.dst]) # NULL
====
